---- MODULE Spec2Model ----
(***************************************************************************)
(* A model of the Elfa skill registry (src/skills/elfa/__init__.py) and of *)
(* the Twitter mention poller (src/skills/twitter/get_mentions.py).        *)
(*                                                                         *)
(* Three specifications share the module:                                  *)
(*   SpecRegistry  get_skills / get_elfa_skill called one after another    *)
(*   SpecRace      get_elfa_skill run by simultaneous threads, line by line*)
(*   SpecPoller    TwitterGetMentions._run, statement by statement, run by *)
(*                 concurrent invocations against one store                *)
(***************************************************************************)
EXTENDS Integers, Sequences, FiniteSets, TLC

VARIABLES
    cache,      \* _cache: skill name -> handle (NoHandle: the key is absent)
    made,       \* skill name -> number of handles constructed so far
    call,       \* the registry call in progress (sequential callers)
    ret,        \* what that call returned or raised
    th,         \* thread -> its position inside get_elfa_skill
    store,      \* skill store: <<agent, skill, key>> -> mapping (NoData: absent)
    rl,         \* rate limiter: agent -> calls counted in the current window
    poll        \* invocation -> its position and locals inside _run

vars == <<cache, made, call, ret, th, store, rl, poll>>

regVars == <<cache, made, call, ret>>
pollVars == <<store, rl, poll>>

-----------------------------------------------------------------------------
(* Bounds *)

\* a configuration names at most MaxCfg skills
MaxCfg == 2

\* tweet ids run from 1 to MaxId
MaxId == 2

-----------------------------------------------------------------------------
(* The skill registry: src/skills/elfa/__init__.py *)

None == "None"

\* the names the if/elif chain of get_elfa_skill knows, in the chain's order
KnownNames ==
    <<"get_mentions", "get_top_mentions", "search_mentions",
      "get_trending_tokens", "get_smart_stats">>

\* every name a caller may pass: the known ones and one the chain does not know
NameOrder == KnownNames \o <<"nonexistent">>

AllNames == {NameOrder[i] : i \in DOMAIN NameOrder}

Known == {KnownNames[i] : i \in DOMAIN KnownNames}

Stores == {"storeA", "storeB"}

SkillState == {"disabled", "public", "private"}

\* the last elif written as else: any other name gets ElfaGetSmartStats
ClassOfNoElse(name) ==
    CASE name = "get_mentions" -> "ElfaGetMentions"
      [] name = "get_top_mentions" -> "ElfaGetTopMentions"
      [] name = "search_mentions" -> "ElfaSearchMentions"
      [] name = "get_trending_tokens" -> "ElfaGetTrendingTokens"
      [] OTHER -> "ElfaGetSmartStats"

\* the class the if/elif chain constructs for a name; None: the else branch
ClassOf(name) ==
    CASE name = "get_mentions" -> "ElfaGetMentions"
      [] name = "get_top_mentions" -> "ElfaGetTopMentions"
      [] name = "search_mentions" -> "ElfaSearchMentions"
      [] name = "get_trending_tokens" -> "ElfaGetTrendingTokens"
      [] name = "get_smart_stats" -> "ElfaGetSmartStats"
      [] OTHER -> None

\* the value of a name that is not a key of _cache
NoHandle == [cls |-> None, skill_store |-> None, serial |-> 0]

\* X(skill_store=store): a fresh object; serial tells two constructions apart
Construct(name, s, k) == [cls |-> ClassOf(name), skill_store |-> s, serial |-> k]

\* the cache is never consulted: every call constructs
NotInCacheAlways(c, name) == TRUE

\* `name not in _cache`
NotInCache(c, name) == c[name] = NoHandle

\* `_cache[name] = handle`
\* the insert rebinds the whole dict to the one new entry
CacheInsertClears(c, name, h) == [n \in DOMAIN c |-> IF n = name THEN h ELSE NoHandle]

CacheInsert(c, name, h) == [c EXCEPT ![name] = h]

NoRet == [kind |-> "none", handle |-> NoHandle, list |-> <<>>, exc |-> None]

RetHandle(h) == [kind |-> "handle", handle |-> h, list |-> <<>>, exc |-> None]

RetList(l) == [kind |-> "list", handle |-> NoHandle, list |-> l, exc |-> None]

\* raise ValueError(f"Unknown Elfa skill: {name}")
RaiseUnknown(name) ==
    [kind |-> "raise", handle |-> NoHandle, list |-> <<>>,
     exc |-> <<"ValueError", "Unknown Elfa skill", name>>]

\* get_elfa_skill run without interruption, from cache c and construction
\* counts k: the cache and counts it leaves and what it returns or raises
GetElfaSkill(c, k, name, s) ==
    IF ClassOf(name) = None
    THEN [cache |-> c, made |-> k, ret |-> RaiseUnknown(name)]
    ELSE IF NotInCache(c, name)
         THEN LET h == Construct(name, s, k[name] + 1)
                  c2 == CacheInsert(c, name, h)
              IN  [cache |-> c2, made |-> [k EXCEPT ![name] = @ + 1],
                   ret |-> RetHandle(c2[name])]
         ELSE [cache |-> c, made |-> k, ret |-> RetHandle(c[name])]

\* private skills handed out whatever is_private says
IncludedIgnoresPrivacy(state, is_private) == state # "disabled"

\* the branch of get_skills' loop: is a skill in this state included
Included(state, is_private) ==
    IF state = "disabled"
    THEN FALSE
    ELSE state = "public" \/ (state = "private" /\ is_private)

\* available_skills after the loop over config["states"].items()
\* every configured name is resolved, whatever its state
AvailableSkillsUnfiltered(config, order, is_private) == order

\* `order` is the iteration order of config.states.items(): the insertion
\* order of the caller's dict
AvailableSkills(config, order, is_private) ==
    SelectSeq(order, LAMBDA n : Included(config[n], is_private))

\* [get_elfa_skill(name, store) for name in names]: stops at the first raise,
\* keeping what the earlier calls put in the cache
RECURSIVE ResolveAll(_, _, _, _, _)
ResolveAll(c, k, names, s, acc) ==
    IF names = <<>>
    THEN [cache |-> c, made |-> k, ret |-> RetList(acc)]
    ELSE LET r == GetElfaSkill(c, k, Head(names), s)
         IN  IF r.ret.kind = "raise"
             THEN r
             ELSE ResolveAll(r.cache, r.made, Tail(names), s,
                             Append(acc, r.ret.handle))

GetSkills(c, k, config, order, is_private, s) ==
    ResolveAll(c, k, AvailableSkills(config, order, is_private), s, <<>>)

\* config["states"]: a mapping from some names to states
Configs ==
    UNION {[D -> SkillState] :
             D \in {S \in SUBSET AllNames : Cardinality(S) <= MaxCfg}}

NoConfig == [n \in {} |-> "disabled"]

\* the orders in which a dict with key set D can have been filled
Orders(D) ==
    {o \in [1 .. Cardinality(D) -> D] : \A n \in D : \E i \in DOMAIN o : o[i] = n}

Idle ==
    [op |-> "idle", config |-> NoConfig, order |-> <<>>, is_private |-> FALSE,
     name |-> None, store |-> None]

\* a caller enters get_skills(config, is_private, store)
CallGetSkills ==
    /\ call.op = "idle"
    /\ \E config \in Configs, is_private \in BOOLEAN, s \in Stores :
          \E order \in Orders(DOMAIN config) :
             call' = [op |-> "get_skills", config |-> config, order |-> order,
                      is_private |-> is_private, name |-> None, store |-> s]
    /\ UNCHANGED <<cache, made, ret, th, pollVars>>

\* a caller enters get_elfa_skill(name, store)
CallGetElfaSkill ==
    /\ call.op = "idle"
    /\ \E name \in AllNames, s \in Stores :
          call' = [op |-> "get_elfa_skill", config |-> NoConfig,
                   order |-> <<>>, is_private |-> FALSE, name |-> name,
                   store |-> s]
    /\ UNCHANGED <<cache, made, ret, th, pollVars>>

RunGetSkills ==
    /\ call.op = "get_skills"
    /\ ret.kind = "none"
    /\ LET r == GetSkills(cache, made, call.config, call.order,
                         call.is_private, call.store)
       IN  /\ cache' = r.cache
           /\ made' = r.made
           /\ ret' = r.ret
    /\ UNCHANGED <<call, th, pollVars>>

RunGetElfaSkill ==
    /\ call.op = "get_elfa_skill"
    /\ ret.kind = "none"
    /\ LET r == GetElfaSkill(cache, made, call.name, call.store)
       IN  /\ cache' = r.cache
           /\ made' = r.made
           /\ ret' = r.ret
    /\ UNCHANGED <<call, th, pollVars>>

\* the caller takes the result (or the exception) and the call is over
Return ==
    /\ ret.kind # "none"
    /\ call' = Idle
    /\ ret' = NoRet
    /\ UNCHANGED <<cache, made, th, pollVars>>

-----------------------------------------------------------------------------
(* get_elfa_skill under simultaneous callers: one step per statement *)

Threads == {"t1", "t2"}

ThreadIdle == [pc |-> "idle", name |-> None, store |-> None, ret |-> NoRet]

\* line 78-113: the if/elif chain selects the branch for name, or raises
TEnter(t) ==
    /\ th[t].pc = "idle"
    /\ \E name \in AllNames, s \in Stores :
          th' = [th EXCEPT ![t] =
                   IF ClassOf(name) = None
                   THEN [pc |-> "done", name |-> name, store |-> s,
                         ret |-> RaiseUnknown(name)]
                   ELSE [pc |-> "check", name |-> name, store |-> s,
                         ret |-> NoRet]]
    /\ UNCHANGED <<regVars, pollVars>>

\* `if name not in _cache:`
TCheck(t) ==
    /\ th[t].pc = "check"
    /\ th' = [th EXCEPT ![t].pc =
                IF NotInCache(cache, th[t].name) THEN "insert" ELSE "return"]
    /\ UNCHANGED <<regVars, pollVars>>

\* `_cache[name] = X(skill_store=store)`
TInsert(t) ==
    /\ th[t].pc = "insert"
    /\ LET n == th[t].name
       IN  /\ cache' = CacheInsert(cache, n, Construct(n, th[t].store, made[n] + 1))
           /\ made' = [made EXCEPT ![n] = @ + 1]
    /\ th' = [th EXCEPT ![t].pc = "return"]
    /\ UNCHANGED <<call, ret, pollVars>>

\* `return _cache[name]`
TReturn(t) ==
    /\ th[t].pc = "return"
    /\ th' = [th EXCEPT ![t].pc = "done", ![t].ret = RetHandle(cache[th[t].name])]
    /\ UNCHANGED <<regVars, pollVars>>

-----------------------------------------------------------------------------
(* The mention poller: src/skills/twitter/get_mentions.py *)

Agents == {"a1", "a2"}

Procs == {"p1", "p2"}

\* name: str = "twitter_get_mentions"
SkillName == "twitter_get_mentions"

\* the tweet ids the feed can hand out; 0 stands for Python's None
Tokens == 1 .. MaxId

\* the credential's mode is not looked at: every poll is rate limited
UseKeyNever(a) == FALSE

\* self.twitter.use_key: a1 polls on the shared budget, a2 holds its own key
UseKey(a) == a = "a2"

\* the entries of the skill store: the pollers' cursors and their neighbours
StoreKeys == Agents \X {SkillName, "other_skill"} \X {"last", "other_key"}

\* self.agent_id, self.name, "last"
\* every agent's cursor lives under one agent's entry
CursorKeyShared(a) == <<"a1", SkillName, "last">>

CursorKey(a) == <<a, SkillName, "last">>

\* a stored value: None, or a mapping held as its set of <<key, value>> pairs
NoData == [some |-> FALSE, map |-> {}]

Data(m) == [some |-> TRUE, map |-> m]

\* the stored value is dropped: every invocation starts cold
OrEmptyAlways(d) == {}

\* `last or {}`: None and the empty mapping both give {}
OrEmpty(d) == IF d.some /\ d.map # {} THEN d.map ELSE {}

\* m.get(key): the value, or None (0)
MapGet(m, key) ==
    IF \E kv \in m : kv[1] = key
    THEN (CHOOSE kv \in m : kv[1] = key)[2]
    ELSE 0

\* a key already present keeps its value
MapSetKeepsOld(m, key, v) ==
    IF \E kv \in m : kv[1] = key THEN m ELSE m \cup {<<key, v>>}

\* m[key] = v
MapSet(m, key, v) == {kv \in m : kv[1] # key} \cup {<<key, v>>}

\* max_results = 10; if since_id: max_results = 100
ColdPageSize == 10

WarmPageSize == 100

\* the two page sizes the wrong way round
MaxResultsSwapped(since_id) ==
    IF since_id # 0 THEN ColdPageSize ELSE WarmPageSize

MaxResults(since_id) == IF since_id # 0 THEN WarmPageSize ELSE ColdPageSize

\* check_rate_limit(max_requests=1)
MaxRequests == 1

RateLimitMessage == "rate limit exceeded"

\* the budget test off by one: a call is let through at count = max_requests
CheckRateLimitOffByOne(count, max_requests) ==
    IF count > max_requests
    THEN [limited |-> TRUE, error |-> RateLimitMessage, count |-> count]
    ELSE [limited |-> FALSE, error |-> None, count |-> count + 1]

\* the limiter's check-and-count on a context whose window holds `count`
\* calls: limited without counting once the budget is used, else counted
CheckRateLimit(count, max_requests) ==
    IF count >= max_requests
    THEN [limited |-> TRUE, error |-> RateLimitMessage, count |-> count]
    ELSE [limited |-> FALSE, error |-> None, count |-> count + 1]

NoResponse == [has_meta |-> FALSE, newest_id |-> 0, data |-> <<>>]

\* what client.get_users_mentions can answer to a request with this since_id:
\* no meta, a meta without newest_id (no tweet found), or a tweet newer than
\* since_id with meta.newest_id its id
Responses(since_id) ==
    {[has_meta |-> FALSE, newest_id |-> 0, data |-> <<>>],
     [has_meta |-> TRUE, newest_id |-> 0, data |-> <<>>]}
    \cup {[has_meta |-> TRUE, newest_id |-> n, data |-> <<n>>] :
            n \in {t \in Tokens : t > since_id}}

\* since_id left out of the request
RequestWithoutSince(a, max_results, since_id) ==
    [user_auth |-> UseKey(a), max_results |-> max_results,
     since_id |-> 0, start_time |-> "now - 1 day"]

\* the arguments of client.get_users_mentions
Request(a, max_results, since_id) ==
    [user_auth |-> UseKey(a), max_results |-> max_results,
     since_id |-> since_id, start_time |-> "now - 1 day"]

NoRequest ==
    [user_auth |-> FALSE, max_results |-> 0, since_id |-> 0, start_time |-> None]

\* process_tweets_response: one Tweet per raw item, in the response's order
ProcessTweetsResponse(mentions) ==
    [i \in DOMAIN mentions.data |-> [id |-> mentions.data[i], kind |-> "Tweet"]]

\* `mentions.get("meta") and mentions["meta"].get("newest_id")`
HasNewest(mentions) == mentions.has_meta /\ mentions.newest_id # 0

\* str(e)
Str(e) == e[2]

Exc(site) == <<"Exception", site>>

NoExc == <<"None", None>>

NoOut == [kind |-> "none", mentions |-> <<>>, error |-> None]

\* TwitterGetMentionsOutput(mentions=..., error=...)
Output(mentions, error) ==
    [kind |-> "returned", mentions |-> mentions, error |-> error]

\* an exception leaving _run
Escaped(e) == [kind |-> "raised", mentions |-> <<>>, error |-> Str(e)]

ClientError == "Failed to get Twitter client. Please check your authentication."

UserIdError == "Failed to get Twitter user ID."

PollIdle ==
    [pc |-> "idle", agent |-> None, last |-> {}, since_id |-> 0,
     max_results |-> 0, mentions |-> NoResponse, result |-> <<>>,
     exc |-> NoExc, out |-> NoOut,
     \* what the invocation has done so far
     limited |-> FALSE, read |-> NoData, req |-> NoRequest,
     nRead |-> 0, nGetId |-> 0, nFetch |-> 0, nWrite |-> 0]

\* the except clause lets the exception out of _run
ExceptClauseReraises(p, e) == Escaped(e)

\* the except clause returns what the invocation had normalized so far
ExceptClauseKeepsItems(p, e) == Output(poll[p].result, Str(e))

\* lines 122-124: except Exception as e: return ...(mentions=[], error=str(e))
ExceptClause(p, e) == Output(<<>>, Str(e))

\* a statement inside the try raises: the except clause makes the result
\* the handler starts the body over instead of returning an envelope
RaiseRestarts(p, site) ==
    poll' = [poll EXCEPT ![p] =
               [PollIdle EXCEPT !.pc = "ratelimit", !.agent = poll[p].agent]]

Raise(p, site) ==
    poll' = [poll EXCEPT ![p].pc = "done", ![p].exc = Exc(site),
                         ![p].out = ExceptClause(p, Exc(site))]

\* a caller invokes _run (or _arun, which calls it) on agent a's skill
Start(p) ==
    /\ poll[p].pc = "idle"
    /\ \E a \in Agents :
          poll' = [poll EXCEPT ![p] =
                     [PollIdle EXCEPT !.pc = "ratelimit", !.agent = a]]
    /\ UNCHANGED <<regVars, th, store, rl>>

\* is_rate_limited is not looked at: a limited call goes on to the fetch
RateLimitIgnored(p) ==
    /\ poll[p].pc = "ratelimit"
    /\ LET a == poll[p].agent
       IN  IF ~UseKey(a)
           THEN \/ /\ Raise(p, "check_rate_limit")
                   /\ UNCHANGED rl
                \/ LET r == CheckRateLimit(rl[a], MaxRequests)
                   IN  /\ rl' = [rl EXCEPT ![a] = r.count]
                       /\ poll' = [poll EXCEPT ![p].pc = "load",
                                               ![p].limited = r.limited]
           ELSE /\ poll' = [poll EXCEPT ![p].pc = "load"]
                /\ UNCHANGED rl
    /\ UNCHANGED <<regVars, th, store>>

\* lines 48-54: the rate limit, checked only when not using OAuth
RateLimit(p) ==
    /\ poll[p].pc = "ratelimit"
    /\ LET a == poll[p].agent
       IN  IF ~UseKey(a)
           THEN \/ /\ Raise(p, "check_rate_limit")
                   /\ UNCHANGED rl
                \/ LET r == CheckRateLimit(rl[a], MaxRequests)
                   IN  /\ rl' = [rl EXCEPT ![a] = r.count]
                       /\ IF r.limited
                          THEN poll' = [poll EXCEPT
                                          ![p].pc = "done",
                                          ![p].limited = TRUE,
                                          ![p].out = Output(<<>>, r.error)]
                          ELSE poll' = [poll EXCEPT ![p].pc = "load"]
           ELSE /\ poll' = [poll EXCEPT ![p].pc = "load"]
                /\ UNCHANGED rl
    /\ UNCHANGED <<regVars, th, store>>

\* lines 57-65: read the cursor, choose the page size
Load(p) ==
    /\ poll[p].pc = "load"
    /\ \/ Raise(p, "get_agent_skill_data")
       \/ LET got == store[CursorKey(poll[p].agent)]
              last == OrEmpty(got)
              since_id == MapGet(last, "since_id")
          IN  poll' = [poll EXCEPT
                         ![p].pc = "client",
                         ![p].last = last,
                         ![p].since_id = since_id,
                         ![p].max_results = MaxResults(since_id),
                         ![p].read = got,
                         ![p].nRead = @ + 1]
    /\ UNCHANGED <<regVars, th, store, rl>>

\* the user id is resolved before the client is tested
GetClientAfterId(p) ==
    /\ poll[p].pc = "client"
    /\ \/ Raise(p, "get_client")
       \/ poll' = [poll EXCEPT ![p].pc = "done",
                               ![p].nGetId = @ + 1,
                               ![p].out = Output(<<>>, ClientError)]
       \/ poll' = [poll EXCEPT ![p].pc = "userid"]
    /\ UNCHANGED <<regVars, th, store, rl>>

\* lines 67-72: self.twitter.get_client()
GetClient(p) ==
    /\ poll[p].pc = "client"
    /\ \/ Raise(p, "get_client")
       \/ poll' = [poll EXCEPT ![p].pc = "done",
                               ![p].out = Output(<<>>, ClientError)]
       \/ poll' = [poll EXCEPT ![p].pc = "userid"]
    /\ UNCHANGED <<regVars, th, store, rl>>

\* lines 74-78: self.twitter.get_id()
GetId(p) ==
    /\ poll[p].pc = "userid"
    /\ \/ poll' = [poll EXCEPT ![p].pc = "done",
                               ![p].nGetId = @ + 1,
                               ![p].exc = Exc("get_id"),
                               ![p].out = ExceptClause(p, Exc("get_id"))]
       \/ poll' = [poll EXCEPT ![p].pc = "done",
                               ![p].nGetId = @ + 1,
                               ![p].out = Output(<<>>, UserIdError)]
       \/ poll' = [poll EXCEPT ![p].pc = "fetch", ![p].nGetId = @ + 1]
    /\ UNCHANGED <<regVars, th, store, rl>>

\* lines 80-107: client.get_users_mentions(...)
Fetch(p) ==
    /\ poll[p].pc = "fetch"
    /\ LET req == Request(poll[p].agent, poll[p].max_results, poll[p].since_id)
       IN  \/ poll' = [poll EXCEPT
                         ![p].pc = "done",
                         ![p].exc = Exc("get_users_mentions"),
                         ![p].out = ExceptClause(p, Exc("get_users_mentions")),
                         ![p].req = req,
                         ![p].nFetch = @ + 1]
           \/ \E m \in Responses(req.since_id) :
                 poll' = [poll EXCEPT ![p].pc = "process",
                                      ![p].mentions = m,
                                      ![p].req = req,
                                      ![p].nFetch = @ + 1]
    /\ UNCHANGED <<regVars, th, store, rl>>

\* the cursor is saved before the response is normalized
ProcessAfterSave(p) ==
    /\ poll[p].pc = "process"
    /\ LET m == poll[p].mentions
           saved == IF HasNewest(m)
                    THEN [store EXCEPT ![CursorKey(poll[p].agent)] =
                            Data(MapSet(poll[p].last, "since_id", m.newest_id))]
                    ELSE store
       IN  /\ store' = saved
           /\ \/ Raise(p, "process_tweets_response")
              \/ poll' = [poll EXCEPT
                            ![p].pc = "update",
                            ![p].result = ProcessTweetsResponse(m)]
    /\ UNCHANGED <<regVars, th, rl>>

\* lines 109-113: normalization; its failure is logged and raised again
Process(p) ==
    /\ poll[p].pc = "process"
    /\ \/ Raise(p, "process_tweets_response")
       \/ poll' = [poll EXCEPT
                     ![p].pc = "update",
                     ![p].result = ProcessTweetsResponse(poll[p].mentions)]
    /\ UNCHANGED store
    /\ UNCHANGED <<regVars, th, rl>>

\* the cursor is saved only if it is still the one the invocation read
UpdateIfUnchanged(p) ==
    /\ poll[p].pc = "update"
    /\ LET m == poll[p].mentions
           last == MapSet(poll[p].last, "since_id", m.newest_id)
           key == CursorKey(poll[p].agent)
       IN  IF HasNewest(m) /\ store[key] = poll[p].read
           THEN /\ store' = [store EXCEPT ![key] = Data(last)]
                /\ poll' = [poll EXCEPT
                              ![p].pc = "done",
                              ![p].last = last,
                              ![p].nWrite = @ + 1,
                              ![p].out = Output(poll[p].result, None)]
           ELSE /\ poll' = [poll EXCEPT
                              ![p].pc = "done",
                              ![p].out = Output(poll[p].result, None)]
                /\ UNCHANGED store
    /\ UNCHANGED <<regVars, th, rl>>

\* lines 115-120: save the newest id when the response has one, and return
Update(p) ==
    /\ poll[p].pc = "update"
    /\ LET m == poll[p].mentions
           last == MapSet(poll[p].last, "since_id", m.newest_id)
       IN  IF HasNewest(m)
           THEN \/ /\ poll' = [poll EXCEPT
                                 ![p].pc = "done",
                                 ![p].last = last,
                                 ![p].exc = Exc("save_agent_skill_data"),
                                 ![p].out =
                                     ExceptClause(p, Exc("save_agent_skill_data"))]
                   /\ UNCHANGED store
                \/ /\ store' = [store EXCEPT
                                  ![CursorKey(poll[p].agent)] = Data(last)]
                   /\ poll' = [poll EXCEPT
                                 ![p].pc = "done",
                                 ![p].last = last,
                                 ![p].nWrite = @ + 1,
                                 ![p].out = Output(poll[p].result, None)]
           ELSE /\ poll' = [poll EXCEPT
                              ![p].pc = "done",
                              ![p].out = Output(poll[p].result, None)]
                /\ UNCHANGED store
    /\ UNCHANGED <<regVars, th, rl>>

\* the invocation is abandoned while the fetch is in flight (the task is
\* cancelled, the worker interrupted): nothing after line 80 runs
Cancel(p) ==
    /\ poll[p].pc = "fetch"
    /\ poll' = [poll EXCEPT ![p] = PollIdle]
    /\ UNCHANGED <<regVars, th, store, rl>>

\* the caller takes the envelope and the invocation is over
Finish(p) ==
    /\ poll[p].pc = "done"
    /\ poll' = [poll EXCEPT ![p] = PollIdle]
    /\ UNCHANGED <<regVars, th, store, rl>>

\* the limiter's window of agent a's skill runs out
ResetWindow(a) ==
    /\ rl[a] > 0
    /\ rl' = [rl EXCEPT ![a] = 0]
    /\ UNCHANGED <<regVars, th, store, poll>>

-----------------------------------------------------------------------------
(* Initial state and specifications *)

InitRegistry ==
    /\ cache = [n \in AllNames |-> NoHandle]
    /\ made = [n \in AllNames |-> 0]
    /\ call = Idle
    /\ ret = NoRet
    /\ th = [t \in Threads |-> ThreadIdle]

InitPoller ==
    /\ store = [k \in StoreKeys |->
                  IF k[2] = SkillName /\ k[3] = "last"
                  THEN NoData
                  ELSE Data({<<"since_id", MaxId>>})]
    \* the limiter's window outlives the process: it may already hold calls
    /\ rl \in [Agents -> 0 .. MaxRequests]
    /\ poll = [p \in Procs |-> PollIdle]

Init == InitRegistry /\ InitPoller

\* the registry never reads the limiter: its specifications start from the
\* initial state whose limiter window is empty
InitFresh == Init /\ rl = [a \in Agents |-> 0]

NextRegistry ==
    \/ CallGetSkills
    \/ CallGetElfaSkill
    \/ RunGetSkills
    \/ RunGetElfaSkill
    \/ Return

SpecRegistry == InitFresh /\ [][NextRegistry]_vars

NextRace == \E t \in Threads : TEnter(t) \/ TCheck(t) \/ TInsert(t) \/ TReturn(t)

SpecRace == InitFresh /\ [][NextRace]_vars

NextPoller ==
    \/ \E p \in Procs :
          \/ Start(p)
          \/ RateLimit(p)
          \/ Load(p)
          \/ GetClient(p)
          \/ GetId(p)
          \/ Fetch(p)
          \/ Process(p)
          \/ Update(p)
          \/ Cancel(p)
          \/ Finish(p)
    \/ \E a \in Agents : ResetWindow(a)

SpecPoller == Init /\ [][NextPoller]_vars

\* callers serialize the invocations of one (owner, skill) pair: an invocation
\* starts only when no other invocation of the same agent is under way
StartSerialized(p) ==
    /\ Start(p)
    /\ \A q \in Procs \ {p} :
          poll[q].pc \in {"idle", "done"} \/ poll[q].agent # poll'[p].agent

NextSerial ==
    \/ \E p \in Procs :
          \/ StartSerialized(p)
          \/ RateLimit(p)
          \/ Load(p)
          \/ GetClient(p)
          \/ GetId(p)
          \/ Fetch(p)
          \/ Process(p)
          \/ Update(p)
          \/ Cancel(p)
          \/ Finish(p)
    \/ \E a \in Agents : ResetWindow(a)

SpecSerial == Init /\ [][NextSerial]_vars

-----------------------------------------------------------------------------
(* Claims about the registry, under SpecRegistry and SpecRace *)

\* a get_skills call has just produced its result
GetSkillsDone == call.op = "get_skills" /\ ret.kind # "none"

\* C1: get_skills returns a handle for a name if and only if the name's
\* configured state is public, or private with is_private true; a disabled
\* name is never in the output; and a configuration naming only known skills
\* always gets a list back.
C1_ListAvailableFilter ==
    GetSkillsDone =>
       /\ (DOMAIN call.config \subseteq Known => ret.kind = "list")
       /\ ret.kind = "list" =>
            \A n \in AllNames :
               LET state == IF n \in DOMAIN call.config
                            THEN call.config[n] ELSE "absent"
                   inOutput == \E i \in DOMAIN ret.list :
                                  /\ ret.list[i] = cache[n]
                                  /\ ret.list[i] # NoHandle
               IN  /\ inOutput <=>
                        \/ state = "public"
                        \/ state = "private" /\ call.is_private
                   /\ state = "disabled" => ~inOutput

\* a private skill handed out to a private caller beside a disabled one left out
C1_Witness ==
    /\ GetSkillsDone
    /\ ret.kind = "list"
    /\ call.is_private
    /\ Len(ret.list) = 1
    /\ \E n, m \in Known :
          /\ n \in DOMAIN call.config /\ call.config[n] = "private"
          /\ m \in DOMAIN call.config /\ call.config[m] = "disabled"
          /\ ret.list[1] = cache[n]

\* the step in which get_elfa_skill(name, store) runs for name n
GetElfaSkillRuns(n) ==
    /\ call.op = "get_elfa_skill"
    /\ call.name = n
    /\ ret.kind = "none"
    /\ ret'.kind # "none"

\* C2: every get_elfa_skill call for a known name returns the handle the
\* cache holds for it; that handle is constructed by the first call only, is
\* bound to the first call's store, and no later call, whatever store it
\* passes, rebinds or replaces it.
C2_IdenticalHandle ==
    [][\A n \in Known :
          /\ cache[n] # NoHandle => cache'[n] = cache[n]
          /\ made'[n] <= 1
          /\ GetElfaSkillRuns(n) =>
                /\ ret' = [kind |-> "handle", handle |-> cache'[n],
                           list |-> <<>>, exc |-> None]
                /\ cache'[n] # NoHandle
                /\ cache[n] = NoHandle =>
                      /\ cache'[n].skill_store = call.store
                      /\ made'[n] = made[n] + 1
                /\ cache[n] # NoHandle => made'[n] = made[n]]_vars

\* a call passing another store than the cached handle's got the cached handle
C2_Witness ==
    /\ call.op = "get_elfa_skill"
    /\ ret.kind = "handle"
    /\ ret.handle = cache[call.name]
    /\ ret.handle.skill_store # call.store

\* C3: get_elfa_skill with a name outside the known identifiers raises
\* ValueError, for any store and any cache contents, and leaves the cache as
\* it was.
C3_UnknownSkillRaises ==
    [][\A n \in AllNames \ Known :
          GetElfaSkillRuns(n) =>
             /\ ret'.kind = "raise"
             /\ ret'.exc[1] = "ValueError"
             /\ cache' = cache
             /\ made' = made]_vars

\* the unknown name was refused while the cache already held a handle
C3_Witness ==
    /\ call.op = "get_elfa_skill"
    /\ call.name \notin Known
    /\ ret.kind = "raise"
    /\ \E n \in Known : cache[n] # NoHandle

\* C10: under simultaneous get_elfa_skill calls at most one handle is ever
\* constructed for a name, and all callers of a name get the same handle.
C10_AtomicGetOrCreate ==
    /\ \A n \in Known : made[n] <= 1
    /\ \A t, u \in Threads :
          (/\ th[t].pc = "done" /\ th[u].pc = "done"
           /\ th[t].name = th[u].name
           /\ th[t].ret.kind = "handle" /\ th[u].ret.kind = "handle")
          => th[t].ret.handle = th[u].ret.handle

-----------------------------------------------------------------------------
(* Claims about the poller, under SpecPoller *)

\* the since_id of a stored value, 0 when there is none
SinceOf(d) ==
    IF d.some /\ \E kv \in d.map : kv[1] = "since_id"
    THEN (CHOOSE kv \in d.map : kv[1] = "since_id")[2]
    ELSE 0

Cursor(a) == store[<<a, "twitter_get_mentions", "last">>]

\* the step in which invocation p ends
Ends(p) == poll[p].pc # "done" /\ poll'[p].pc = "done"

C5_RateLimitedNoEffects ==
    [][\A p \in Procs :
          (/\ poll[p].pc = "ratelimit"
           /\ poll[p].agent # "a2"
           /\ rl[poll[p].agent] >= 1
           /\ poll'[p] # poll[p]
           /\ poll'[p].exc[1] = "None")
          => /\ poll'[p].pc = "done"
             /\ poll'[p].out = [kind |-> "returned", mentions |-> <<>>,
                                error |-> "rate limit exceeded"]
             /\ poll'[p].nFetch = 0
             /\ poll'[p].nRead = 0
             /\ poll'[p].nWrite = 0
             /\ store' = store
             /\ rl' = rl]_vars

\* an invocation was turned away by the limiter
C5_Witness ==
    \E p \in Procs :
       /\ poll[p].pc = "done"
       /\ poll[p].limited
       /\ poll[p].out.error = "rate limit exceeded"

\* C6: the request sent to the fetch follows the cursor read in the same
\* invocation: page size 10 and no since_id when none was stored, page size
\* 100 and exactly the stored since_id otherwise.
C6_RequestFollowsCursor ==
    \A p \in Procs :
       poll[p].nFetch > 0 =>
          /\ poll[p].nRead = 1
          /\ poll[p].req.since_id = SinceOf(poll[p].read)
          /\ poll[p].req.max_results =
                IF SinceOf(poll[p].read) = 0 THEN 10 ELSE 100

\* a warm fetch beside a cold one
C6_Witness ==
    \E p, q \in Procs :
       /\ poll[p].nFetch = 1 /\ poll[p].req.max_results = 100
       /\ poll[p].req.since_id # 0
       /\ poll[q].nFetch = 1 /\ poll[q].req.max_results = 10

\* the fetch of invocation p answered, with a newest marker
FetchedNewest(p) ==
    /\ poll[p].nFetch = 1
    /\ poll[p].mentions.has_meta
    /\ poll[p].mentions.newest_id # 0

\* C7 as stated: when an invocation whose fetch succeeded with a newest
\* marker N ends, the stored cursor is exactly {since_id: N}.
C7_AsStated ==
    [][\A p \in Procs :
          (Ends(p) /\ FetchedNewest(p)) =>
             Cursor(poll[p].agent)' =
                [some |-> TRUE,
                 map |-> {<<"since_id", poll[p].mentions.newest_id>>}]]_vars

\* C7, amended: when an invocation ends without failure (fetch, normalization
\* and store write all succeeded) and its response carried a newest marker N,
\* the stored cursor is exactly {since_id: N}; when the response had no meta
\* or no newest marker, or normalization or the store write failed, the step
\* leaves the store as it was.
C7_CursorAfterSuccess ==
    [][\A p \in Procs :
          Ends(p) =>
             IF FetchedNewest(p) /\ poll'[p].out.error = None
             THEN /\ Cursor(poll[p].agent)' =
                        [some |-> TRUE,
                         map |-> {<<"since_id", poll[p].mentions.newest_id>>}]
                  /\ \A k \in DOMAIN store :
                        k # <<poll[p].agent, "twitter_get_mentions", "last">>
                        => store'[k] = store[k]
             ELSE store' = store]_vars

\* a stored cursor was overwritten by the newest marker of a later response
C7_Witness ==
    \E p \in Procs :
       /\ poll[p].pc = "done"
       /\ poll[p].out.error = None
       /\ poll[p].nWrite = 1
       /\ poll[p].read.some
       /\ FetchedNewest(p)
       /\ Cursor(poll[p].agent) =
             [some |-> TRUE,
              map |-> {<<"since_id", poll[p].mentions.newest_id>>}]

\* C8: in every envelope a poll returns, an error comes with no items.
C8_ErrorMeansNoItems ==
    \A p \in Procs :
       (poll[p].out.kind # "none" /\ poll[p].out.error # None)
       => poll[p].out.mentions = <<>>

\* the store write failed after normalization had produced items
C8_Witness ==
    \E p \in Procs :
       /\ poll[p].pc = "done"
       /\ poll[p].out.error = "save_agent_skill_data"
       /\ poll[p].result # <<>>
       /\ poll[p].out.mentions = <<>>

WritesCursor(p, a) ==
    /\ poll[p].pc = "update"
    /\ poll[p].agent = a
    /\ poll'[p].nWrite = poll[p].nWrite + 1

AtRateLimit(p) == poll[p].pc = "ratelimit" /\ poll'[p] # poll[p]

\* C11: a poll with an elevated credential never consults the limiter: its
\* rate-limit stage leaves the limiter's counters as they are and goes on to
\* the cursor load, whatever the limiter holds (also with the budget used up),
\* and no later step of the invocation touches the counters either.
C11_ElevatedSkipsLimiter ==
    [][\A p \in Procs :
          /\ (AtRateLimit(p) /\ poll[p].agent = "a2") =>
                /\ rl' = rl
                /\ poll'[p].pc = "load"
                /\ poll'[p].exc[1] = "None"
                /\ ~poll'[p].limited
          /\ (poll[p].agent = "a2" /\ poll'[p] # poll[p]) => rl' = rl]_vars

\* an elevated poll went on to its fetch while its limiter's budget was used up
C11_Witness ==
    \E p \in Procs :
       /\ poll[p].agent = "a2"
       /\ poll[p].nFetch = 1
       /\ rl["a2"] >= 1

\* C12: with max_requests = 1 the limiter's check and count are one step per
\* context: a non-elevated poll passes only when its context's window holds
\* no call, and the pass counts one; a limited poll returns the rate-limited
\* envelope without counting; the count never exceeds one and goes back to
\* zero only when the window runs out.  So in one window of one context at
\* most one invocation gets past the limiter, concurrent ones included.
C12_OnePassPerWindow ==
    [][/\ \A p \in Procs :
             (AtRateLimit(p) /\ poll[p].agent = "a1"
              /\ poll'[p].exc[1] = "None") =>
                LET a == poll[p].agent
                IN  IF rl[a] = 0
                    THEN /\ poll'[p].pc = "load"
                         /\ rl' = [rl EXCEPT ![a] = 1]
                    ELSE /\ poll'[p].pc = "done"
                         /\ poll'[p].out = [kind |-> "returned",
                                            mentions |-> <<>>,
                                            error |-> "rate limit exceeded"]
                         /\ poll'[p].nFetch = 0
                         /\ rl' = rl
       /\ rl'["a1"] <= 1
       /\ rl'["a1"] > rl["a1"] =>
             Cardinality({p \in Procs : AtRateLimit(p) /\ poll'[p].pc = "load"}) = 1
       /\ rl'["a1"] < rl["a1"] => (rl'["a1"] = 0 /\ poll' = poll)]_vars

\* two invocations of one context met in one window: one was let through and
\* is at its fetch, the other was turned away
C12_Witness ==
    \E p, q \in Procs :
       /\ poll[p].agent = "a1" /\ poll[q].agent = "a1"
       /\ poll[p].pc = "fetch"
       /\ poll[q].pc = "done" /\ poll[q].limited
       /\ rl["a1"] = 1

\* C13: the cursor is written only after the fetch and the normalization of
\* the same invocation have both succeeded: the only step that changes the
\* store is the last step of an invocation that has fetched, has normalized
\* every item of the response and returns without error; a step that ends an
\* invocation with an error, or abandons it during the fetch, leaves the store
\* as it was.
C13_WriteOnlyAfterSuccess ==
    [][/\ store' # store =>
             \E p \in Procs :
                /\ poll[p].pc = "update" /\ poll'[p].pc = "done"
                /\ poll[p].nFetch = 1
                /\ poll[p].mentions.newest_id # 0
                /\ Len(poll[p].result) = Len(poll[p].mentions.data)
                /\ poll'[p].out.kind = "returned"
                /\ poll'[p].out.error = None
       /\ \A p \in Procs :
             (\/ Ends(p) /\ poll'[p].out.error # None
              \/ poll[p].pc = "fetch" /\ poll'[p].pc = "idle")
             => store' = store]_vars

\* normalization failed on a response that carried a marker, and the cursor
\* is still the one the invocation read
C13_Witness ==
    \E p \in Procs :
       /\ poll[p].pc = "done"
       /\ poll[p].exc[2] = "process_tweets_response"
       /\ FetchedNewest(p)
       /\ poll[p].nWrite = 0
       /\ Cursor(poll[p].agent) = poll[p].read
       /\ SinceOf(Cursor(poll[p].agent)) # poll[p].mentions.newest_id

\* C14: when get_client or get_id yields nothing the poll returns an envelope
\* with no items and the message naming what is missing, makes no fetch and no
\* store write; a missing client is reported before get_id is called.
C14_CredentialUnavailable ==
    [][\A p \in Procs :
          (Ends(p) /\ poll'[p].exc[1] = "None") =>
             /\ poll[p].pc = "client" =>
                   /\ poll'[p].out =
                         [kind |-> "returned", mentions |-> <<>>,
                          error |-> "Failed to get Twitter client. Please check your authentication."]
                   /\ poll'[p].nGetId = 0
                   /\ poll'[p].nFetch = 0
                   /\ poll'[p].nWrite = 0
                   /\ store' = store
             /\ poll[p].pc = "userid" =>
                   /\ poll'[p].out =
                         [kind |-> "returned", mentions |-> <<>>,
                          error |-> "Failed to get Twitter user ID."]
                   /\ poll'[p].nGetId = 1
                   /\ poll'[p].nFetch = 0
                   /\ poll'[p].nWrite = 0
                   /\ store' = store]_vars

\* one invocation ended on the missing client, another on the missing user id
C14_Witness ==
    \E p, q \in Procs :
       /\ poll[p].pc = "done" /\ poll[p].nGetId = 0 /\ poll[p].nRead = 1
       /\ poll[p].out.error =
             "Failed to get Twitter client. Please check your authentication."
       /\ poll[q].pc = "done" /\ poll[q].nGetId = 1
       /\ poll[q].out.error = "Failed to get Twitter user ID."

\* One statement of invocation p's body (lines 46-124): every collaborator
\* call returns or raises, so an invocation in progress always takes its next
\* step and is never abandoned
Step(p) ==
    \/ RateLimit(p)
    \/ Load(p)
    \/ GetClient(p)
    \/ GetId(p)
    \/ Fetch(p)
    \/ Process(p)
    \/ Update(p)

NextLive ==
    \/ \E p \in Procs :
          \/ Start(p)
          \/ Step(p)
          \/ Finish(p)
    \/ \E a \in Agents : ResetWindow(a)

SpecLive == Init /\ [][NextLive]_vars /\ \A p \in Procs : WF_vars(Step(p))

\* the step in which invocation p returns without error from its update stage
Succeeds(p) ==
    /\ poll[p].pc = "update"
    /\ poll'[p].pc = "done"
    /\ poll'[p].out.error = None

\* C15: the poller takes no lock between its cursor read and its cursor
\* write: an invocation whose response carries a marker writes it even when
\* the stored cursor is no longer the one it read, replacing what another
\* invocation of the same pair wrote in between; that update is lost.
C15_StaleWriteGoesThrough ==
    [][\A p \in Procs :
          (/\ Succeeds(p)
           /\ poll[p].mentions.newest_id # 0
           /\ Cursor(poll[p].agent) # poll[p].read)
          => /\ SinceOf(Cursor(poll[p].agent)') = poll[p].mentions.newest_id
             /\ Cursor(poll[p].agent)' # Cursor(poll[p].agent)
                   => \A q \in Procs \ {p} : poll'[q] = poll[q]]_vars

\* two invocations of one pair read the same cursor and both wrote: the
\* stored cursor is the second writer's and the first writer's marker is gone
C15_Witness ==
    \E p, q \in Procs :
       /\ p # q
       /\ poll[p].agent = poll[q].agent
       /\ poll[p].pc = "done" /\ poll[q].pc = "done"
       /\ poll[p].nWrite = 1 /\ poll[q].nWrite = 1
       /\ poll[p].read = poll[q].read
       /\ poll[p].mentions.newest_id > poll[q].mentions.newest_id
       /\ SinceOf(Cursor(poll[q].agent)) = poll[q].mentions.newest_id

InFlight == {"client", "userid", "fetch", "process", "update"}

C17_Terminates ==
    \A p \in Procs :
       (poll[p].pc \notin {"idle", "done"})
          ~> (poll[p].pc = "done" /\ poll[p].out # NoOut)

\* one invocation returned through the except clause, another returned
\* after saving its cursor
C17_Witness ==
    \E p, q \in Procs :
       /\ poll[p].pc = "done" /\ poll[p].exc[1] = "Exception"
       /\ poll[p].out.error = poll[p].exc[2]
       /\ poll[q].pc = "done" /\ poll[q].out.error = "None"
       /\ poll[q].nWrite = 1

\* the step in which a get_skills call runs to its result
GetSkillsRuns == call.op = "get_skills" /\ ret.kind = "none" /\ ret'.kind # "none"

\* the names of the call's config that pass the enablement filter
IncludedNames ==
    {n \in DOMAIN call.config :
        \/ call.config[n] = "public"
        \/ call.config[n] = "private" /\ call.is_private}

\* position of name n in the call's iteration order
Pos(n) == CHOOSE i \in DOMAIN call.order : call.order[i] = n

\* C18: get_skills resolves only the names that pass the enablement filter.
\* It raises the unknown-skill error exactly when an included name is not a
\* known skill; a name that is filtered out, known or not, leaves its cache
\* entry as it was; and when the call raises, every included known name
\* iterated before the first unknown one has its handle in the cache, while
\* the names after it are untouched.
C18_ResolvesOnlyIncluded ==
    [][GetSkillsRuns =>
          LET bad == IncludedNames \ Known
          IN  /\ ret'.kind = "raise" <=> bad # {}
              /\ ret'.kind \in {"raise", "list"}
              /\ \A n \in AllNames \ IncludedNames : cache'[n] = cache[n]
              /\ \A n \in AllNames \ Known : cache'[n] = NoHandle
              /\ \A n \in Known : cache[n] # NoHandle => cache'[n] = cache[n]
              /\ bad # {} =>
                    \A n \in IncludedNames \cap Known :
                       IF \A b \in bad : Pos(n) < Pos(b)
                       THEN /\ cache'[n] # NoHandle
                            /\ cache[n] = NoHandle =>
                                  cache'[n].skill_store = call.store
                       ELSE cache'[n] = cache[n]]_vars

\* a get_skills call raised on an unknown included name after constructing
\* the handle of the known name before it, and the handle is in the cache
C18_Witness ==
    /\ GetSkillsDone
    /\ ret.kind = "raise"
    /\ call.order = <<"get_mentions", "nonexistent">>
    /\ call.config["get_mentions"] = "private" /\ call.is_private
    /\ cache["get_mentions"] # NoHandle
    /\ cache["get_mentions"].skill_store = call.store
    /\ made["get_mentions"] = 1
    /\ \A n \in AllNames \ {"get_mentions"} : cache[n] = NoHandle

\* C19: the cache is monotonic under any sequence of get_skills and
\* get_elfa_skill calls: its key set only grows, every key is one of the
\* five known skill names, and an entry once inserted is never removed or
\* replaced by another handle.
C19_CacheMonotonic ==
    [][/\ {n \in AllNames : cache[n] # NoHandle}
             \subseteq {n \in AllNames : cache'[n] # NoHandle}
       /\ {n \in AllNames : cache'[n] # NoHandle}
             \subseteq {"get_mentions", "get_top_mentions",
                        "search_mentions", "get_trending_tokens",
                        "get_smart_stats"}
       /\ \A n \in AllNames :
             cache[n] # NoHandle =>
                /\ cache'[n].skill_store = cache[n].skill_store
                /\ cache'[n].serial = cache[n].serial
                /\ cache'[n].cls = cache[n].cls]_vars

\* two entries are in the cache, inserted by calls with different stores,
\* and the call under way carries the other store than the first entry's
C19_Witness ==
    \E n, m \in AllNames :
       /\ n # m
       /\ cache[n] # NoHandle /\ cache[m] # NoHandle
       /\ cache[n].skill_store # cache[m].skill_store
       /\ call.op = "get_elfa_skill" /\ call.name = n
       /\ call.store # cache[n].skill_store
       /\ ret.kind = "handle"

\* C20: one poll invocation performs at most one external fetch and at most
\* one store write, the write comes after the fetch, and it changes only the
\* entry (own agent, "twitter_get_mentions", "last"): every other owner's,
\* skill's or key's entry is as the invocation found it.
C20_OneFetchOneWriteOwnEntry ==
    [][/\ \A p \in Procs :
             /\ poll'[p].nFetch <= 1
             /\ poll'[p].nWrite <= 1
             /\ poll'[p].nWrite > poll[p].nWrite =>
                   /\ poll[p].nFetch = 1
                   /\ poll'[p].nFetch = 1
             /\ poll'[p] # poll[p] =>
                   \A k \in DOMAIN store :
                      k # <<poll[p].agent, "twitter_get_mentions", "last">>
                         => store'[k] = store[k]
       /\ store' # store =>
             \E p \in Procs : poll'[p].nWrite = poll[p].nWrite + 1]_vars

\* an invocation for a2 fetched once and wrote its cursor once; a1's cursor
\* is still absent and the neighbouring entries hold what they held at first
C20_Witness ==
    \E p \in Procs :
       /\ poll[p].pc = "done" /\ poll[p].agent = "a2"
       /\ poll[p].nFetch = 1 /\ poll[p].nWrite = 1
       /\ store[<<"a2", "twitter_get_mentions", "last">>].some
       /\ ~store[<<"a1", "twitter_get_mentions", "last">>].some
       /\ \A k \in DOMAIN store :
             (k[2] # "twitter_get_mentions" \/ k[3] # "last")
                => store[k] = [some |-> TRUE, map |-> {<<"since_id", MaxId>>}]

====
